---- MODULE Spec2Model ----
(***************************************************************************)
(* georag: the download counter of app.py (a JSON file rewritten under a   *)
(* process-wide lock), the offline index build of build_index.py, and the  *)
(* /search handler of app.py with its distance-to-similarity scoring, and  *)
(* the /datasets and /summarize handlers beside them.                      *)
(***************************************************************************)
EXTENDS Integers, Sequences, FiniteSets, TLC

(***************************************************************************)
(* Bounds of the model.                                                    *)
(***************************************************************************)
NThreads == 3        \* concurrent /download requests
MaxInitCount == 1    \* largest count in a store that exists at start
MaxBuilds == 2       \* runs of build_index.py
MaxRecords == 6      \* records in metadata_descriptions.json
MaxK == 7            \* largest k a /search request asks for
MaxScore == 320      \* largest score of the scoring grid, in units of 1/64
NRequests == 2       \* concurrent /summarize requests

Threads == 1..NThreads
Requests == 1..NRequests
FileIds == {"f", "g"}

(***************************************************************************)
(* Download counter: data/download_stats.json and the lock.                *)
(* A store maps a file id to its count; a key that is absent from the JSON *)
(* object reads as 0 (stats.get(filename, 0)), and no key is ever stored   *)
(* with 0, so 0 stands for "absent".                                       *)
(***************************************************************************)
VARIABLES
  statsFile,   \* contents of DOWNLOAD_STATS_FILE
  initFile,    \* contents of DOWNLOAD_STATS_FILE when the process started
  ioFault,     \* TRUE once a write to the file has failed part-way
  statsLock,   \* holder of _stats_lock, 0 when free
  pc,          \* position of each /download request in increment_download
  arg,         \* its filename argument
  local,       \* its local variable stats
  ret,         \* its return value, 0 when it has returned nothing
  rpc,         \* position of the /stats request in load_stats
  statsResp    \* what the last /stats request answered

counterVars == <<statsFile, initFile, ioFault, statsLock, pc, arg, local, ret,
                 rpc, statsResp>>

\* build_index.py
VARIABLES
  buildPc,      \* position of the build script in main
  runs,         \* number of builds started
  data,         \* main's data, the records read from metadata_descriptions.json
  builtIndex,   \* main's index, the vectors added to it
  indexFile,    \* data/index/geophysical_data.index
  mappingFile   \* data/index/mapping.json

buildVars == <<buildPc, runs, data, builtIndex, indexFile, mappingFile>>

\* app.py: the index and mapping loaded at import, and the last /search
VARIABLES
  appPc,        \* "down", "index_loaded", "serving" or "crashed"
  appIndex,     \* the module's index
  appMapping,   \* the module's mapping
  reqQ,         \* q of the last /search request
  reqK,         \* k of the last /search request, -1 before the first request
  embedCalled,  \* whether that request called embed_model.encode
  respI,        \* its I[0]
  respD,        \* its D[0]
  results       \* its results

appVars == <<appPc, appIndex, appMapping, reqQ, reqK, embedCalled, respI, respD, results>>

\* the scoring of one slot on its own
VARIABLES
  score,        \* float(score), in units of 1 / DistUnit
  similarity,   \* item["similarity"], in tenths of a percent
  scored        \* whether similarity has been computed

scoreVars == <<score, similarity, scored>>

\* the /datasets and /summarize handlers
VARIABLES
  datasetsResp,      \* body of the last /datasets response
  geminiConfigured,  \* whether model_gemini is set (GEMINI_API_KEY was given)
  sumPc,             \* position of each /summarize request
  description,       \* its description
  attempts,          \* calls of call_gemini that the retry wrapper has made for it
  outcomes,          \* outcome of each model_gemini.generate_content call made for it
  sumResp            \* its response

svcVars == <<datasetsResp, geminiConfigured, sumPc, description, attempts, outcomes, sumResp>>

vars == <<counterVars, buildVars, appVars, scoreVars, svcVars>>

EmptyStore == [f \in FileIds |-> 0]

Absent == [kind |-> "absent", store |-> EmptyStore]
Truncated == [kind |-> "trunc", store |-> EmptyStore]
Garbage == [kind |-> "garbage", store |-> EmptyStore]
Json(s) == [kind |-> "json", store |-> s]

\* os.path.exists(DOWNLOAD_STATS_FILE)
Exists(file) == file.kind # "absent"

\* json.load(f) succeeds: an empty or partly written file, or one that holds
\* something else, raises
Parseable(file) == file.kind = "json"

NoResp == [kind |-> "none", store |-> EmptyStore]
ErrResp == [kind |-> "error", store |-> EmptyStore]
OkResp(s) == [kind |-> "ok", store |-> s]

CounterInit ==
  /\ statsFile \in {Absent, Garbage}
                   \cup {Json(s) : s \in [FileIds -> 0..MaxInitCount]}
  /\ initFile = statsFile
  /\ ioFault = FALSE
  /\ statsLock = 0
  /\ pc = [t \in Threads |-> "idle"]
  /\ arg = [t \in Threads |-> "f"]
  /\ local = [t \in Threads |-> EmptyStore]
  /\ ret = [t \in Threads |-> 0]
  /\ rpc = "idle"
  /\ statsResp = NoResp

\* download_file calls increment_download(filename)
Call(t) ==
  /\ pc[t] = "idle"
  /\ \E f \in FileIds : arg' = [arg EXCEPT ![t] = f]
  /\ pc' = [pc EXCEPT ![t] = "lock"]
  /\ UNCHANGED <<statsFile, initFile, ioFault, statsLock, local, ret, rpc, statsResp>>
  /\ UNCHANGED <<buildVars, appVars, scoreVars, svcVars>>

\* with _stats_lock: entered without waiting for the lock to be free
AcquireNoWait(t) ==
  /\ pc[t] = "lock"
  /\ statsLock' = t
  /\ pc' = [pc EXCEPT ![t] = "exists"]
  /\ UNCHANGED <<statsFile, initFile, ioFault, arg, local, ret, rpc, statsResp>>
  /\ UNCHANGED <<buildVars, appVars, scoreVars, svcVars>>

\* with _stats_lock:
Acquire(t) ==
  /\ pc[t] = "lock"
  /\ statsLock = 0
  /\ statsLock' = t
  /\ pc' = [pc EXCEPT ![t] = "exists"]
  /\ UNCHANGED <<statsFile, initFile, ioFault, arg, local, ret, rpc, statsResp>>
  /\ UNCHANGED <<buildVars, appVars, scoreVars, svcVars>>

\* load_stats: if os.path.exists(...) ... else return {}
LoadExists(t) ==
  /\ pc[t] = "exists"
  /\ IF Exists(statsFile)
       THEN /\ pc' = [pc EXCEPT ![t] = "read"]
            /\ UNCHANGED local
       ELSE /\ pc' = [pc EXCEPT ![t] = "modify"]
            /\ local' = [local EXCEPT ![t] = EmptyStore]
  /\ UNCHANGED <<statsFile, initFile, ioFault, statsLock, arg, ret, rpc, statsResp>>
  /\ UNCHANGED <<buildVars, appVars, scoreVars, svcVars>>

\* load_stats that answers {} when json.load fails
LoadReadReset(t) ==
  /\ pc[t] = "read"
  /\ pc' = [pc EXCEPT ![t] = "modify"]
  /\ local' = [local EXCEPT ![t] = IF Parseable(statsFile) THEN statsFile.store
                                                         ELSE EmptyStore]
  /\ UNCHANGED <<statsFile, initFile, ioFault, statsLock, arg, ret, rpc, statsResp>>
  /\ UNCHANGED <<buildVars, appVars, scoreVars, svcVars>>

\* load_stats whose exception does not release the lock (acquire() with no
\* try/finally in place of the with block)
LoadReadKeepLock(t) ==
  /\ pc[t] = "read"
  /\ IF Parseable(statsFile)
       THEN /\ pc' = [pc EXCEPT ![t] = "modify"]
            /\ local' = [local EXCEPT ![t] = statsFile.store]
       ELSE /\ pc' = [pc EXCEPT ![t] = "raised"]
            /\ UNCHANGED local
  /\ UNCHANGED <<statsFile, initFile, ioFault, statsLock, arg, ret, rpc, statsResp>>
  /\ UNCHANGED <<buildVars, appVars, scoreVars, svcVars>>

\* load_stats: return json.load(f); the exception leaves the with block, which
\* releases the lock
LoadRead(t) ==
  /\ pc[t] = "read"
  /\ IF Parseable(statsFile)
       THEN /\ pc' = [pc EXCEPT ![t] = "modify"]
            /\ local' = [local EXCEPT ![t] = statsFile.store]
            /\ UNCHANGED statsLock
       ELSE /\ pc' = [pc EXCEPT ![t] = "raised"]
            /\ statsLock' = IF statsLock = t THEN 0 ELSE statsLock
            /\ UNCHANGED local
  /\ UNCHANGED <<statsFile, initFile, ioFault, arg, ret, rpc, statsResp>>
  /\ UNCHANGED <<buildVars, appVars, scoreVars, svcVars>>

\* stats[filename] = 1, the previous count forgotten
ModifySetOne(t) ==
  /\ pc[t] = "modify"
  /\ local' = [local EXCEPT ![t][arg[t]] = 1]
  /\ pc' = [pc EXCEPT ![t] = "open"]
  /\ UNCHANGED <<statsFile, initFile, ioFault, statsLock, arg, ret, rpc, statsResp>>
  /\ UNCHANGED <<buildVars, appVars, scoreVars, svcVars>>

\* stats[filename] = stats.get(filename, 0) + 1
Modify(t) ==
  /\ pc[t] = "modify"
  /\ local' = [local EXCEPT ![t][arg[t]] = @ + 1]
  /\ pc' = [pc EXCEPT ![t] = "open"]
  /\ UNCHANGED <<statsFile, initFile, ioFault, statsLock, arg, ret, rpc, statsResp>>
  /\ UNCHANGED <<buildVars, appVars, scoreVars, svcVars>>

\* save_stats: open(DOWNLOAD_STATS_FILE, "w") creates or truncates the file
SaveOpen(t) ==
  /\ pc[t] = "open"
  /\ statsFile' = Truncated
  /\ pc' = [pc EXCEPT ![t] = "dump"]
  /\ UNCHANGED <<initFile, ioFault, statsLock, arg, local, ret, rpc, statsResp>>
  /\ UNCHANGED <<buildVars, appVars, scoreVars, svcVars>>

\* save_stats: json.dump(stats, f, indent=2) and the close of the file
SaveDump(t) ==
  /\ pc[t] = "dump"
  /\ statsFile' = Json(local[t])
  /\ pc' = [pc EXCEPT ![t] = "return"]
  /\ UNCHANGED <<initFile, ioFault, statsLock, arg, local, ret, rpc, statsResp>>
  /\ UNCHANGED <<buildVars, appVars, scoreVars, svcVars>>

\* save_stats: the write raises OSError (disk full, I/O error); the file stays
\* as the open left it and the exception releases the lock
SaveFail(t) ==
  /\ pc[t] = "dump"
  /\ ioFault' = TRUE
  /\ pc' = [pc EXCEPT ![t] = "raised"]
  /\ statsLock' = IF statsLock = t THEN 0 ELSE statsLock
  /\ UNCHANGED <<statsFile, initFile, arg, local, ret, rpc, statsResp>>
  /\ UNCHANGED <<buildVars, appVars, scoreVars, svcVars>>

\* return stats[filename], leaving the with block
Return(t) ==
  /\ pc[t] = "return"
  /\ ret' = [ret EXCEPT ![t] = local[t][arg[t]]]
  /\ statsLock' = IF statsLock = t THEN 0 ELSE statsLock
  /\ pc' = [pc EXCEPT ![t] = "done"]
  /\ UNCHANGED <<statsFile, initFile, ioFault, arg, local, rpc, statsResp>>
  /\ UNCHANGED <<buildVars, appVars, scoreVars, svcVars>>

\* /stats: load_stats() without the lock, the os.path.exists test
StatsExists ==
  /\ rpc = "idle"
  /\ IF Exists(statsFile)
       THEN /\ rpc' = "read"
            /\ UNCHANGED statsResp
       ELSE /\ rpc' = "idle"
            /\ statsResp' = OkResp(EmptyStore)
  /\ UNCHANGED <<statsFile, initFile, ioFault, statsLock, pc, arg, local, ret>>
  /\ UNCHANGED <<buildVars, appVars, scoreVars, svcVars>>

\* /stats: json.load(f) and jsonify, or the exception
StatsRead ==
  /\ rpc = "read"
  /\ rpc' = "idle"
  /\ statsResp' = IF Parseable(statsFile) THEN OkResp(statsFile.store) ELSE ErrResp
  /\ UNCHANGED <<statsFile, initFile, ioFault, statsLock, pc, arg, local, ret>>
  /\ UNCHANGED <<buildVars, appVars, scoreVars, svcVars>>

CounterNext ==
  \/ \E t \in Threads : Call(t)
  \/ \E t \in Threads : Acquire(t)
  \/ \E t \in Threads : LoadExists(t)
  \/ \E t \in Threads : LoadRead(t)
  \/ \E t \in Threads : Modify(t)
  \/ \E t \in Threads : SaveOpen(t)
  \/ \E t \in Threads : SaveDump(t)
  \/ \E t \in Threads : SaveFail(t)
  \/ \E t \in Threads : Return(t)
  \/ StatsExists
  \/ StatsRead

(***************************************************************************)
(* Text embedder and vector index.  A vector has two coordinates, held in  *)
(* units of 1/8, so a squared L2 distance is an integer number of 1/64:    *)
(* these values, their halves and their products with 100 are exact in     *)
(* float32 and float64, which makes the arithmetic of search exact here.   *)
(***************************************************************************)
DistUnit == 8 * 8

\* the slot distance faiss reports beside row -1
NoMatchDist == DistUnit * 1000

Min(a, b) == IF a < b THEN a ELSE b
Max(a, b) == IF a > b THEN a ELSE b

\* data/metadata_descriptions.json: the records the extractor can write
Catalog ==
  << [file |-> "north_sea.sgy", description |-> "seismic reflection profile"],
     [file |-> "pacific_sst.nc", description |-> "ocean sea surface temperature"],
     [file |-> "bouguer.h5", description |-> "bouguer gravity anomaly"],
     [file |-> "tohoku.mseed", description |-> "earthquake waveform"],
     [file |-> "bouguer_copy.h5", description |-> "bouguer gravity anomaly"],
     [file |-> "atlantic_sst.nc", description |-> "ocean sea surface temperature"] >>

\* the input of one build: n records of the catalog, starting after record r
Corpus(r, n) == [i \in 1..n |-> Catalog[((r + i - 1) % Len(Catalog)) + 1]]
Offsets == {0, 3}

\* the inputs of the build runs: none, fewer than k and more than k records
BuildInputs == {Corpus(r, n) : r \in Offsets, n \in {0, 2, MaxRecords}}

\* the non-empty inputs of every size
Corpora == {Corpus(r, n) : r \in Offsets, n \in 1..MaxRecords}

Queries == {"", " ", "gravity survey", "ocean temperature"}

\* k of index.search(query_vec, k=5)
SearchK == 5

\* the k a request may carry: none, fewer than, as many as and more than the
\* handler's own k
KChoices == {0, 2, SearchK, MaxK}

\* SentenceTransformer.encode of one text: deterministic, one vector per text
Embed(text) ==
  CASE text = "seismic reflection profile" -> <<8, 0>>
    [] text = "ocean sea surface temperature" -> <<0, 8>>
    [] text = "bouguer gravity anomaly" -> <<-8, 0>>
    [] text = "earthquake waveform" -> <<6, 5>>
    [] text = "gravity survey" -> <<-7, 4>>
    [] text = "ocean temperature" -> <<1, 8>>
    [] text = " " -> <<1, 1>>
    [] OTHER -> <<0, 0>>

\* squared L2 distance of IndexFlatL2, in units of 1/64
L2sq(u, v) == (u[1] - v[1]) * (u[1] - v[1]) + (u[2] - v[2]) * (u[2] - v[2])

\* the orders in which a flat index may rank the rows of S: by ascending
\* distance, rows at equal distance in either order
RECURSIVE Rankings(_, _, _)
Rankings(vecs, qv, S) ==
  IF S = {} THEN {<<>>}
  ELSE LET best == {r \in S : \A o \in S : L2sq(vecs[r + 1], qv) <= L2sq(vecs[o + 1], qv)}
       IN UNION {{<<r>> \o rest : rest \in Rankings(vecs, qv, S \ {r})} : r \in best}

\* index.search(query_vec, k): the k slots (I, D); a slot past the last
\* vector holds row -1
IndexSearch(vecs, qv, k) ==
  LET n == Len(vecs)
      m == Min(k, n)
  IN {[I |-> [j \in 1..k |-> IF j <= m THEN rk[j] ELSE -1],
       D |-> [j \in 1..k |-> IF j <= m THEN L2sq(vecs[rk[j] + 1], qv) ELSE NoMatchDist]] :
        rk \in Rankings(vecs, qv, 0..(n - 1))}

(***************************************************************************)
(* build_index.py                                                          *)
(***************************************************************************)

NoIndex == [kind |-> "absent", vecs |-> <<>>, run |-> 0]
PartialIndex == [kind |-> "trunc", vecs |-> <<>>, run |-> 0]
NoMapping == [kind |-> "absent", recs |-> <<>>, run |-> 0]
PartialMapping == [kind |-> "trunc", recs |-> <<>>, run |-> 0]

\* descriptions = [item["description"] for item in data], reversed
DescriptionsReversed(d) == [i \in 1..Len(d) |-> d[Len(d) + 1 - i].description]

\* descriptions = [item["description"] for item in data]
Descriptions(d) == [i \in 1..Len(d) |-> d[i].description]

\* model.encode(descriptions): one vector per description, same order
Encode(texts) == [i \in 1..Len(texts) |-> Embed(texts[i])]

BuildInit ==
  /\ buildPc = "idle"
  /\ runs = 0
  /\ data = <<>>
  /\ builtIndex = <<>>
  /\ indexFile = NoIndex
  /\ mappingFile = NoMapping

\* json.load of data/metadata_descriptions.json at the start of a run
BuildLoad ==
  /\ buildPc \in {"idle", "done", "failed"}
  /\ runs < MaxBuilds
  /\ \E d \in BuildInputs : data' = d
  /\ runs' = runs + 1
  /\ buildPc' = "embed"
  /\ UNCHANGED <<builtIndex, indexFile, mappingFile>>
  /\ UNCHANGED <<counterVars, appVars, scoreVars, svcVars>>

\* encode, embeddings.shape[1], IndexFlatL2(dimension), index.add: with no
\* record the array has shape (0,) and shape[1] raises IndexError
BuildEmbed ==
  /\ buildPc = "embed"
  /\ IF Len(data) = 0
       THEN /\ buildPc' = "failed"
            /\ UNCHANGED builtIndex
       ELSE /\ builtIndex' = Encode(Descriptions(data))
            /\ buildPc' = "write_index"
  /\ UNCHANGED <<runs, data, indexFile, mappingFile>>
  /\ UNCHANGED <<counterVars, appVars, scoreVars, svcVars>>

\* os.makedirs("data/index", exist_ok=True) and
\* faiss.write_index(index, "data/index/geophysical_data.index")
WriteIndex ==
  /\ buildPc = "write_index"
  /\ indexFile' = [kind |-> "index", vecs |-> builtIndex, run |-> runs]
  /\ buildPc' = "open_mapping"
  /\ UNCHANGED <<runs, data, builtIndex, mappingFile>>
  /\ UNCHANGED <<counterVars, appVars, scoreVars, svcVars>>

\* faiss.write_index raises: the file could not be opened, or it was opened
\* for writing and the write failed
WriteIndexFail ==
  /\ buildPc = "write_index"
  /\ indexFile' \in {indexFile, PartialIndex}
  /\ buildPc' = "failed"
  /\ UNCHANGED <<runs, data, builtIndex, mappingFile>>
  /\ UNCHANGED <<counterVars, appVars, scoreVars, svcVars>>

\* open("data/index/mapping.json", "w") creates or truncates the file
OpenMapping ==
  /\ buildPc = "open_mapping"
  /\ mappingFile' = PartialMapping
  /\ buildPc' = "dump_mapping"
  /\ UNCHANGED <<runs, data, builtIndex, indexFile>>
  /\ UNCHANGED <<counterVars, appVars, scoreVars, svcVars>>

\* open("data/index/mapping.json", "w") raises
OpenMappingFail ==
  /\ buildPc = "open_mapping"
  /\ buildPc' = "failed"
  /\ UNCHANGED <<runs, data, builtIndex, indexFile, mappingFile>>
  /\ UNCHANGED <<counterVars, appVars, scoreVars, svcVars>>

\* json.dump(data, f, indent=4) and the close of the file; data came from
\* json.load, so the file reads back as the same records in the same order
DumpMapping ==
  /\ buildPc = "dump_mapping"
  /\ mappingFile' = [kind |-> "json", recs |-> data, run |-> runs]
  /\ buildPc' = "done"
  /\ UNCHANGED <<runs, data, builtIndex, indexFile>>
  /\ UNCHANGED <<counterVars, appVars, scoreVars, svcVars>>

\* json.dump raises part-way
DumpMappingFail ==
  /\ buildPc = "dump_mapping"
  /\ buildPc' = "failed"
  /\ UNCHANGED <<runs, data, builtIndex, indexFile, mappingFile>>
  /\ UNCHANGED <<counterVars, appVars, scoreVars, svcVars>>

BuildNext ==
  \/ BuildLoad
  \/ BuildEmbed
  \/ WriteIndex
  \/ WriteIndexFail
  \/ OpenMapping
  \/ OpenMappingFail
  \/ DumpMapping
  \/ DumpMappingFail

(***************************************************************************)
(* app.py: the index and mapping loaded at import, and /search.            *)
(* A similarity is held in tenths of a percent (round(similarity, 1)).     *)
(***************************************************************************)

\* round(x, 1) of a float that is exact: a / b rounded to an integer, a tie
\* going to the even neighbour
RoundHalfEven(a, b) ==
  LET q == a \div b
      r == a % b
  IN IF 2 * r < b THEN q
     ELSE IF 2 * r > b THEN q + 1
     ELSE IF q % 2 = 0 THEN q ELSE q + 1

\* round((1 - float(score) / 2.0) * 100, 1), the max(0, ...) left out
SimilarityUnclamped(n) == RoundHalfEven((2 * DistUnit - n) * 1000, 2 * DistUnit)

\* round(max(0, (1 - float(score) / 2.0)) * 100, 1), in tenths of a percent,
\* of the score n / DistUnit
Similarity(n) == RoundHalfEven(Max(0, 2 * DistUnit - n) * 1000, 2 * DistUnit)

\* if idx < len(mapping) and idx != -1
Keep(idx, mapping) == idx < Len(mapping) /\ idx # -1

\* item = mapping[idx].copy(); item["score"] = ...; item["similarity"] = ...
Item(rec, n) ==
  [file |-> rec.file, description |-> rec.description,
   score |-> n, similarity |-> Similarity(n)]

\* item = mapping[idx] without .copy(): the shared entry is item, and it gets
\* item["score"] and item["similarity"]
SharedEntryNoCopy(rec, n) == Item(rec, n)

\* item = mapping[idx].copy(): item is a new dict and the writes to it leave
\* the shared entry mapping[idx] as it is
SharedEntry(rec, n) == rec

\* the list mapping of the module after the loop has run from slot j on
RECURSIVE MappingAfter(_, _, _, _)
MappingAfter(D, I, mapping, j) ==
  IF j > Len(I) THEN mapping
  ELSE MappingAfter(D, I,
         IF Keep(I[j], mapping)
           THEN [mapping EXCEPT ![I[j] + 1] = SharedEntry(@, D[j])]
           ELSE mapping,
         j + 1)

\* the loop with results.insert(0, item) in place of results.append(item)
RECURSIVE CollectResultsFront(_, _, _, _)
CollectResultsFront(D, I, mapping, j) ==
  IF j > Len(I) THEN <<>>
  ELSE CollectResultsFront(D, I, mapping, j + 1) \o
         (IF Keep(I[j], mapping) THEN <<Item(mapping[I[j] + 1], D[j])>> ELSE <<>>)

\* for score, idx in zip(D[0], I[0]): ... results.append(item), from slot j on
RECURSIVE CollectResults(_, _, _, _)
CollectResults(D, I, mapping, j) ==
  IF j > Len(I) THEN <<>>
  ELSE (IF Keep(I[j], mapping) THEN <<Item(mapping[I[j] + 1], D[j])>> ELSE <<>>)
         \o CollectResults(D, I, mapping, j + 1)

\* if not query
QueryEmpty(q) == q = ""

AppInit ==
  /\ appPc = "down"
  /\ appIndex = NoIndex
  /\ appMapping = NoMapping
  /\ reqQ = ""
  /\ reqK = -1
  /\ embedCalled = FALSE
  /\ respI = <<>>
  /\ respD = <<>>
  /\ results = <<>>

\* index = faiss.read_index("data/index/geophysical_data.index")
AppLoadIndex ==
  /\ appPc = "down"
  /\ IF indexFile.kind = "index"
       THEN /\ appIndex' = indexFile
            /\ appPc' = "index_loaded"
       ELSE /\ appPc' = "crashed"
            /\ UNCHANGED appIndex
  /\ UNCHANGED <<appMapping, reqQ, reqK, embedCalled, respI, respD, results>>
  /\ UNCHANGED <<counterVars, buildVars, scoreVars, svcVars>>

\* with open("data/index/mapping.json", "r") as f: mapping = json.load(f)
AppLoadMapping ==
  /\ appPc = "index_loaded"
  /\ IF mappingFile.kind = "json"
       THEN /\ appMapping' = mappingFile
            /\ appPc' = "serving"
       ELSE /\ appPc' = "crashed"
            /\ UNCHANGED appMapping
  /\ UNCHANGED <<appIndex, reqQ, reqK, embedCalled, respI, respD, results>>
  /\ UNCHANGED <<counterVars, buildVars, scoreVars, svcVars>>

\* GET /search?q=...&k=...: the handler reads q only
Search(qs, ks) ==
  /\ appPc = "serving"
  /\ \E q \in qs, k \in ks :
       /\ reqQ' = q
       /\ reqK' = k
       /\ IF QueryEmpty(q)
            THEN /\ embedCalled' = FALSE
                 /\ respI' = <<>>
                 /\ respD' = <<>>
                 /\ results' = <<>>
                 /\ UNCHANGED appMapping
            ELSE /\ embedCalled' = TRUE
                 /\ \E r \in IndexSearch(appIndex.vecs, Embed(q), SearchK) :
                      /\ respI' = r.I
                      /\ respD' = r.D
                      /\ results' = CollectResults(r.D, r.I, appMapping.recs, 1)
                      /\ appMapping' =
                           [appMapping EXCEPT !.recs = MappingAfter(r.D, r.I, @, 1)]
  /\ UNCHANGED <<appPc, appIndex>>
  /\ UNCHANGED <<counterVars, buildVars, scoreVars, svcVars>>

\* the start of app.py and the requests of the front end's default search
AppNext ==
  \/ AppLoadIndex
  \/ AppLoadMapping
  \/ Search({"gravity survey"}, {SearchK})

\* the files of data/index after one successful run on m (d = m), or after
\* that run and a second run on d that failed at the open of mapping.json
\* after faiss.write_index, and an app that has loaded them
ServingInit ==
  \E d \in Corpora, m \in Corpora :
    /\ runs = (IF d = m THEN 1 ELSE 2)
    /\ buildPc = (IF d = m THEN "done" ELSE "failed")
    /\ data = d
    /\ builtIndex = Encode(Descriptions(d))
    /\ indexFile = [kind |-> "index", vecs |-> builtIndex, run |-> runs]
    /\ mappingFile = [kind |-> "json", recs |-> m, run |-> 1]
    /\ appPc = "serving"
    /\ appIndex = indexFile
    /\ appMapping = mappingFile
    /\ reqQ = ""
    /\ reqK = -1
    /\ embedCalled = FALSE
    /\ respI = <<>>
    /\ respD = <<>>
    /\ results = <<>>

(***************************************************************************)
(* The scoring of one slot on its own, over a grid of scores.              *)
(***************************************************************************)

ScoreIdle ==
  /\ score = 0
  /\ similarity = 0
  /\ scored = FALSE

ScoreInit ==
  /\ score \in 0..MaxScore
  /\ similarity = 0
  /\ scored = FALSE

\* similarity = max(0, ...) * 100; item["similarity"] = round(similarity, 1)
ComputeSimilarity ==
  /\ ~scored
  /\ similarity' = Similarity(score)
  /\ scored' = TRUE
  /\ UNCHANGED score
  /\ UNCHANGED <<counterVars, buildVars, appVars, svcVars>>

(***************************************************************************)
(* /datasets and /summarize.  A /summarize request runs in its own thread; *)
(* call_gemini is wrapped by tenacity's retry, which calls it again after  *)
(* a sleep when it raised, until the stop condition holds, and then raises *)
(* RetryError into summarize's except clause.                              *)
(***************************************************************************)
MaxAttempts == 3

SummarizeInputs == {"", "netCDF, 3 x 4 grid"}

NoDatasets == [sent |-> FALSE, recs |-> <<>>]
NoSummary == [status |-> 0, kind |-> "none", attempt |-> 0]
Summary(k, n) == [status |-> 200, kind |-> k, attempt |-> n]
SummaryError == [status |-> 500, kind |-> "error", attempt |-> 0]

SvcInit ==
  /\ datasetsResp = NoDatasets
  /\ geminiConfigured \in BOOLEAN
  /\ sumPc = [r \in Requests |-> "idle"]
  /\ description = [r \in Requests |-> ""]
  /\ attempts = [r \in Requests |-> 0]
  /\ outcomes = [r \in Requests |-> <<>>]
  /\ sumResp = [r \in Requests |-> NoSummary]

SvcIdle == SvcInit /\ geminiConfigured

\* GET /datasets: return jsonify(mapping)
Datasets ==
  /\ appPc = "serving"
  /\ datasetsResp' = [sent |-> TRUE, recs |-> appMapping.recs]
  /\ UNCHANGED <<geminiConfigured, sumPc, description, attempts, outcomes, sumResp>>
  /\ UNCHANGED <<counterVars, buildVars, appVars, scoreVars>>

\* POST /summarize, up to the call of call_gemini
Summarize(r) ==
  /\ sumPc[r] = "idle"
  /\ \E d \in SummarizeInputs :
       /\ description' = [description EXCEPT ![r] = d]
       /\ IF d = ""
            THEN /\ sumResp' = [sumResp EXCEPT ![r] = Summary("no description", 0)]
                 /\ sumPc' = [sumPc EXCEPT ![r] = "done"]
            ELSE /\ sumPc' = [sumPc EXCEPT ![r] = "call"]
                 /\ UNCHANGED sumResp
  /\ UNCHANGED <<datasetsResp, geminiConfigured, attempts, outcomes>>
  /\ UNCHANGED <<counterVars, buildVars, appVars, scoreVars>>

\* stop_after_attempt(3) with 4 in place of 3
StopAfterFourth(n) == n > MaxAttempts

\* stop=stop_after_attempt(3), asked after the n-th call has raised
Stop(n) == n >= MaxAttempts

\* call_gemini: if not model_gemini: return "Gemini API key not configured."
CallUnconfigured(r) ==
  /\ sumPc[r] = "call"
  /\ ~geminiConfigured
  /\ attempts' = [attempts EXCEPT ![r] = @ + 1]
  /\ sumResp' = [sumResp EXCEPT ![r] = Summary("not configured", 0)]
  /\ sumPc' = [sumPc EXCEPT ![r] = "done"]
  /\ UNCHANGED <<datasetsResp, geminiConfigured, description, outcomes>>
  /\ UNCHANGED <<counterVars, buildVars, appVars, scoreVars>>

\* call_gemini: generate_content returns and summarize returns response.text
GenerateOk(r) ==
  /\ sumPc[r] = "call"
  /\ geminiConfigured
  /\ attempts' = [attempts EXCEPT ![r] = @ + 1]
  /\ outcomes' = [outcomes EXCEPT ![r] = Append(@, "ok")]
  /\ sumResp' = [sumResp EXCEPT ![r] = Summary("summary", Len(outcomes'[r]))]
  /\ sumPc' = [sumPc EXCEPT ![r] = "done"]
  /\ UNCHANGED <<datasetsResp, geminiConfigured, description>>
  /\ UNCHANGED <<counterVars, buildVars, appVars, scoreVars>>

\* call_gemini: generate_content or response.text raises; the wrapper either
\* goes to sleep before the next call or raises RetryError, which summarize
\* turns into the 500 response
GenerateFail(r) ==
  /\ sumPc[r] = "call"
  /\ geminiConfigured
  /\ attempts' = [attempts EXCEPT ![r] = @ + 1]
  /\ outcomes' = [outcomes EXCEPT ![r] = Append(@, "raised")]
  /\ IF Stop(attempts'[r])
       THEN /\ sumResp' = [sumResp EXCEPT ![r] = SummaryError]
            /\ sumPc' = [sumPc EXCEPT ![r] = "done"]
       ELSE /\ sumPc' = [sumPc EXCEPT ![r] = "wait"]
            /\ UNCHANGED sumResp
  /\ UNCHANGED <<datasetsResp, geminiConfigured, description>>
  /\ UNCHANGED <<counterVars, buildVars, appVars, scoreVars>>

\* wait=wait_exponential(multiplier=1, min=4, max=10): the sleep ends
Backoff(r) ==
  /\ sumPc[r] = "wait"
  /\ sumPc' = [sumPc EXCEPT ![r] = "call"]
  /\ UNCHANGED <<datasetsResp, geminiConfigured, description, attempts, outcomes, sumResp>>
  /\ UNCHANGED <<counterVars, buildVars, appVars, scoreVars>>

\* one step of a /summarize request that has reached call_gemini
SummarizeStep(r) ==
  \/ CallUnconfigured(r)
  \/ GenerateOk(r)
  \/ GenerateFail(r)
  \/ Backoff(r)

(***************************************************************************)
(* Properties of the download counter.                                     *)
(***************************************************************************)
FreshStart == initFile = Absent \/ initFile = Json(EmptyStore)
AllReturned == \A t \in Threads : pc[t] = "done"
Returned(f) == {t \in Threads : pc[t] = "done" /\ arg[t] = f}
InitCount(f) == initFile.store[f]

\* C1: from an empty or absent store, once all N concurrent increment_download
\* calls have returned, the persisted count of each file is the number of calls
\* made for it and their return values are 1..that number, each once (all N
\* calls on one file: count N, return values 1..N).
C1_NoLostUpdate ==
  (FreshStart /\ AllReturned) =>
    /\ Parseable(statsFile)
    /\ \A f \in FileIds :
         /\ statsFile.store[f] = Cardinality(Returned(f))
         /\ {ret[t] : t \in Returned(f)} = 1..Cardinality(Returned(f))

C1_Witness ==
  /\ FreshStart
  /\ AllReturned
  /\ \A t \in Threads : arg[t] = "f"
  /\ statsFile = Json([EmptyStore EXCEPT !["f"] = NThreads])
  /\ {ret[t] : t \in Threads} = 1..NThreads

\* C2 (as claimed): with no disk fault and no corrupt file at start, every
\* answer of the unlocked /stats reader is a parsed store, never an error from
\* an empty or partly written file.
C2_ReaderSeesSnapshot ==
  (statsResp.kind # "none" /\ ~ioFault /\ initFile # Garbage) =>
     statsResp.kind = "ok"

\* C3: whenever no increment is in progress and the file is readable, each
\* file's persisted count is its count at start plus the number of increments
\* that returned for it, and those increments returned start+1, start+2, ...
\* (each the previous count plus 1).
C3_IncrementCounts ==
  (statsLock = 0 /\ Parseable(statsFile)) =>
    \A f \in FileIds :
      /\ statsFile.store[f] = InitCount(f) + Cardinality(Returned(f))
      /\ {ret[t] : t \in Returned(f)} =
           (InitCount(f) + 1)..(InitCount(f) + Cardinality(Returned(f)))

C3_Witness ==
  /\ initFile = Json(EmptyStore)
  /\ Cardinality(Returned("f")) = 2
  /\ {ret[t] : t \in Returned("f")} = {1, 2}
  /\ statsLock = 0
  /\ statsFile = Json([EmptyStore EXCEPT !["f"] = 2])
  /\ statsResp = OkResp([EmptyStore EXCEPT !["f"] = 2])

\* C10: a load_stats that meets an unparseable file raises: an increment ends
\* with an error, returns no count and leaves the file as it was, the /stats
\* reader answers an error and leaves the file as it was, and a corrupt file
\* is never overwritten.
C10_CorruptFileRaises ==
  [][/\ \A t \in Threads :
          (pc[t] = "read" /\ ~Parseable(statsFile) /\ pc'[t] # "read") =>
             (pc'[t] = "raised" /\ ret'[t] = 0 /\ statsFile' = statsFile)
     /\ (rpc = "read" /\ ~Parseable(statsFile) /\ rpc' # "read") =>
             (statsResp' = ErrResp /\ statsFile' = statsFile)
     /\ (statsFile = Garbage) => (statsFile' = Garbage)]_vars

C10_Witness ==
  /\ statsFile = Garbage
  /\ \E t \in Threads : pc[t] = "raised" /\ ret[t] = 0
  /\ statsResp = ErrResp

CounterIdle == CounterInit /\ statsFile = Absent

\* the download counter under concurrent /download and /stats requests
Init == CounterInit /\ BuildInit /\ AppInit /\ ScoreIdle /\ SvcIdle
Next == CounterNext
Spec == Init /\ [][Next]_vars

\* one step of a /download request that has entered increment_download
ThreadStep(t) ==
  \/ Acquire(t)
  \/ LoadExists(t)
  \/ LoadRead(t)
  \/ Modify(t)
  \/ SaveOpen(t)
  \/ SaveDump(t)
  \/ SaveFail(t)
  \/ Return(t)

\* the /download requests alone, from a missing, a corrupt or an empty store,
\* with every request thread scheduled again and again
FairInit == Init /\ statsFile \in {Absent, Garbage, Json(EmptyStore)}
FairNext == \E t \in Threads : Call(t) \/ ThreadStep(t)
FairSpec == FairInit /\ [][FairNext]_vars /\ \A t \in Threads : WF_vars(ThreadStep(t))

\* runs of build_index.py beside one start of app.py and its /search requests
IndexInit == CounterIdle /\ BuildInit /\ AppInit /\ ScoreIdle /\ SvcIdle
IndexNext == BuildNext \/ AppNext
IndexSpec == IndexInit /\ [][IndexNext]_vars

\* /search requests of every query and k, to an app that is serving
SearchInit == CounterIdle /\ ServingInit /\ ScoreIdle /\ SvcIdle
SearchNext == Search(Queries, KChoices)
SearchSpec == SearchInit /\ [][SearchNext]_vars

\* the scoring of a slot
ScoreNext == ComputeSimilarity
ScoreSpecInit == CounterIdle /\ BuildInit /\ AppInit /\ ScoreInit /\ SvcIdle
ScoreSpec == ScoreSpecInit /\ [][ScoreNext]_vars

\* an app that serves the index and the mapping of one successful build of
\* 2 or MaxRecords records beside an empty counter store, no request made yet
ServeInit ==
  /\ CounterInit
  /\ statsFile = Json(EmptyStore)
  /\ ServingInit
  /\ runs = 1
  /\ Len(data) \in {2, MaxRecords}
  /\ ScoreIdle
  /\ SvcInit

\* /summarize requests to an app that serves 2 records, each request thread
\* scheduled again and again, beside one /download request
SummarizeInit == ServeInit /\ Len(data) = 2
SummarizeNext ==
  \/ \E r \in Requests : Summarize(r) \/ SummarizeStep(r)
  \/ Call(1)
  \/ ThreadStep(1)
SummarizeSpec ==
  SummarizeInit /\ [][SummarizeNext]_vars /\ \A r \in Requests : WF_vars(SummarizeStep(r))

\* the requests of a serving app side by side: /search, /datasets, one
\* /summarize and one /download
ServeNext ==
  \/ Search({"", "gravity survey"}, {SearchK})
  \/ Datasets
  \/ Summarize(1)
  \/ SummarizeStep(1)
  \/ Call(1)
  \/ ThreadStep(1)
ServeSpec == ServeInit /\ [][ServeNext]_vars

(***************************************************************************)
(* Properties of the index build and of /search.                           *)
(***************************************************************************)
BuildAtRest == buildPc \in {"idle", "done", "failed"}

\* position i of the index holds the embedding of the description of
\* position i of the mapping, and neither store has a position more
PairAligned(ix, mp) ==
  /\ Len(ix.vecs) = Len(mp.recs)
  /\ \A i \in 1..Len(mp.recs) : ix.vecs[i] = Embed(mp.recs[i].description)

\* C4 (as claimed): whenever no build is running, after successful and failed
\* runs alike, the index file and the mapping file are both absent or describe
\* the same record sequence.
C4_PairNeverMismatched ==
  BuildAtRest =>
    \/ indexFile = NoIndex /\ mappingFile = NoMapping
    \/ /\ indexFile.kind = "index"
       /\ mappingFile.kind = "json"
       /\ PairAligned(indexFile, mappingFile)

\* C5: after a successful build the mapping file holds the input records in
\* their order and the index file holds as many vectors, vector i being the
\* embedding of the description of record i; and in an app that loaded the
\* index and the mapping of one successful build, every row that search gets
\* from the index and keeps is a position of the mapping whose record is the
\* one embedded at that row.
C5_OrdinalAlignment ==
  /\ buildPc = "done" =>
       /\ indexFile.kind = "index"
       /\ mappingFile.kind = "json"
       /\ mappingFile.recs = data
       /\ PairAligned(indexFile, mappingFile)
  /\ (appPc = "serving" /\ appIndex.run = appMapping.run) =>
       \A j \in 1..Len(respI) :
         Keep(respI[j], appMapping.recs) =>
           /\ respI[j] + 1 \in DOMAIN appMapping.recs
           /\ appIndex.vecs[respI[j] + 1] =
                Embed(appMapping.recs[respI[j] + 1].description)

C5_Witness ==
  /\ buildPc = "done"
  /\ runs = 2
  /\ appPc = "serving"
  /\ appIndex.run = appMapping.run
  /\ Len(appMapping.recs) = MaxRecords
  /\ Len(results) = Min(SearchK, MaxRecords)
  /\ Len(mappingFile.recs) = 2

\* the slots of the last answer that the handler kept, in slot order
KeptSlots ==
  SelectSeq([j \in 1..Len(respI) |-> j],
            LAMBDA j : Keep(respI[j], appMapping.recs))

\* C6: the results of a search are the kept slots of the index's answer in
\* the index's order: scores are non-decreasing and similarities are
\* non-increasing along the list.
C6_IndexOrder ==
  reqK # -1 =>
    /\ Len(results) = Len(KeptSlots)
    /\ \A j \in 1..Len(results) :
         /\ results[j].score = respD[KeptSlots[j]]
         /\ results[j].file = appMapping.recs[respI[KeptSlots[j]] + 1].file
    /\ \A j \in 1..(Len(results) - 1) :
         /\ results[j].score <= results[j + 1].score
         /\ results[j].similarity >= results[j + 1].similarity

C6_Witness ==
  /\ Len(results) = SearchK
  /\ results[1].score < results[2].score
  /\ results[1].similarity > results[2].similarity
  /\ \E j \in 1..(Len(results) - 1) :
       /\ results[j].score < results[j + 1].score
       /\ results[j].similarity = results[j + 1].similarity

Blank(q) == q \in {"", " "}

\* C7 (as claimed): an empty or whitespace-only query is answered with an
\* empty list, without a call of the embedder or the index.
C7_BlankQueryEmpty ==
  (reqK # -1 /\ Blank(reqQ)) => (results = <<>> /\ ~embedCalled /\ respI = <<>>)

\* C8 (as claimed): a non-blank query with k is answered with exactly
\* min(k, corpus size) records.
C8_ReturnsMinK ==
  (reqK # -1 /\ ~Blank(reqQ) /\ appIndex.run = appMapping.run) =>
     Len(results) = Min(reqK, Len(appIndex.vecs))

\* C9: every score d >= 0 of the grid gets a similarity in [0, 100]; d = 0
\* gets 100.0, d = 2 gets 0.0 and every d > 2 gets 0.0.
C9_SimilarityBound ==
  scored =>
    /\ 0 <= similarity /\ similarity <= 1000
    /\ score = 0 => similarity = 1000
    /\ score = 2 * DistUnit => similarity = 0
    /\ score > 2 * DistUnit => similarity = 0

C9_Witness ==
  /\ scored
  /\ score > 2 * DistUnit
  /\ similarity = 0
(***************************************************************************)
(* Further properties of the download counter and of the build.            *)
(***************************************************************************)
\* C11 (as claimed): when the counter file does not exist at start and no
\* write fails, no /stats request ends in an error, also while the first
\* increment is creating the file, and the first increment of a file that
\* returns has returned 1.
C11_MissingStoreTolerated ==
  (initFile = Absent /\ ~ioFault) =>
    /\ statsResp.kind # "error"
    /\ \A f \in FileIds :
         Returned(f) # {} => 1 \in {ret[t] : t \in Returned(f)}

\* C12 (as claimed): a build run on an empty record sequence ends without
\* failing and leaves a valid empty index and an empty mapping on disk.
C12_EmptyBuildSucceeds ==
  (runs > 0 /\ Len(data) = 0 /\ BuildAtRest) =>
    /\ buildPc = "done"
    /\ indexFile.kind = "index" /\ indexFile.vecs = <<>>
    /\ mappingFile.kind = "json" /\ mappingFile.recs = <<>>

\* the count the file holds for g: 0 for a key or a file that is absent, -1
\* when the file holds no readable store
PersistedCount(g) ==
  IF Parseable(statsFile) THEN statsFile.store[g]
  ELSE IF Exists(statsFile) THEN -1 ELSE 0

\* C16 (as claimed): whenever no increment is in progress, a file id for
\* which no increment was called has the persisted count it had at start,
\* whatever calls were made for other file ids, and no persisted count is
\* below its value at start.
C16_OnlyOwnEntry ==
  (initFile # Garbage /\ statsLock = 0) =>
    \A g \in FileIds :
      /\ (\A u \in Threads : arg[u] = g => pc[u] = "idle") =>
            PersistedCount(g) = InitCount(g)
      /\ PersistedCount(g) >= InitCount(g)
\* _stats_lock is held by no request that is outside the with block
LockReleased ==
  /\ \A t \in Threads : pc[t] \in {"idle", "lock", "done", "raised"} => statsLock # t
  /\ statsLock # 0 => pc[statsLock] \in {"exists", "read", "modify", "open", "dump", "return"}

\* C15: the lock is held only inside the with block, also after load_stats or
\* save_stats has raised, and under fair scheduling every increment_download
\* call that waits for the lock ends by returning or raising.
C15_LockAlwaysReleased ==
  /\ []LockReleased
  /\ \A t \in Threads : (pc[t] = "lock") ~> (pc[t] \in {"done", "raised"})

C15_Witness ==
  /\ ioFault
  /\ statsLock = 0
  /\ \E t \in Threads, u \in Threads :
       t # u /\ pc[t] = "raised" /\ pc[u] = "raised"
  /\ \E t \in Threads : pc[t] = "done"
(***************************************************************************)
(* Properties of /summarize and of the loaded index and mapping.           *)
(***************************************************************************)
FirstOk(r) ==
  CHOOSE i \in 1..Len(outcomes[r]) :
    outcomes[r][i] = "ok" /\ \A j \in 1..(i - 1) : outcomes[r][j] # "ok"
Summarized(r) ==
  \/ /\ \E i \in 1..Len(outcomes[r]) : outcomes[r][i] = "ok"
     /\ sumResp[r] = Summary("summary", FirstOk(r))
  \/ /\ sumResp[r] = SummaryError
     /\ Len(outcomes[r]) = 3
     /\ \A i \in 1..3 : outcomes[r][i] = "raised"
NotAttempted(r) ==
  /\ description[r] = "" \/ ~geminiConfigured
  /\ outcomes[r] = <<>>
  /\ sumResp[r].status = 200
  /\ sumResp[r].kind = (IF description[r] = "" THEN "no description" ELSE "not configured")
RetryBounded ==
  \A r \in Requests :
    /\ Len(outcomes[r]) <= 3
    /\ sumPc[r] = "done" => Summarized(r) \/ NotAttempted(r)
    /\ (sumPc[r] = "done" /\ outcomes[r] # <<>>) => Summarized(r)

\* C14: a /summarize request calls the external model at most 3 times; once it
\* has reached the call it always gets its response; a request that called the
\* model is answered with the summary of its first successful call, or with
\* status 500 after its third call has failed (a request without description,
\* or one served without API key, is answered without any call of the model);
\* and no step of a /summarize request changes the counter store, the index or
\* the mapping, in memory or on disk.
C14_BoundedRetry ==
  /\ []RetryBounded
  /\ [][svcVars' # svcVars => UNCHANGED <<statsFile, appIndex, appMapping, indexFile, mappingFile>>]_vars
  /\ \A r \in Requests : (sumPc[r] = "call") ~> (sumPc[r] = "done")

C14_Witness ==
  /\ geminiConfigured
  /\ sumPc[1] = "done" /\ sumResp[1] = SummaryError /\ Len(outcomes[1]) = 3
  /\ sumPc[2] = "done" /\ sumResp[2] = Summary("summary", 2)
  /\ pc[1] = "done" /\ Parseable(statsFile)

\* C13: once the app serves, no step of a /search, /datasets, /summarize or
\* /download request changes the module's index or mapping: the score and the
\* similarity of a result are written to a copy of the mapping entry.
C13_LoadedReadOnly ==
  [][appPc = "serving" => (appIndex' = appIndex /\ appMapping' = appMapping)]_vars

C13_Witness ==
  /\ appPc = "serving"
  /\ results # <<>>
  /\ datasetsResp = [sent |-> TRUE, recs |-> mappingFile.recs]
  /\ sumPc[1] = "done" /\ sumResp[1].kind = "summary"
  /\ pc[1] = "done" /\ Parseable(statsFile)

====
